---- MODULE Spec2Model ----
(***************************************************************************)
(* Model of the shelly execution engine: the process supervisor and its    *)
(* cleanup worker (shelly/src/process_manager.rs), the streaming executor  *)
(* (shelly/src/streaming_executor.rs) and the orchestrator                 *)
(* (execute_command_streaming in shelly/src/lib.rs).                       *)
(*                                                                         *)
(* Text is a sequence of chunks.  A chunk is the (possibly cut) text of    *)
(* one line read from the child: [s, k, n, cut] is line number k of stream *)
(* s ("o" stdout, "e" stderr), of which n characters are present; cut      *)
(* tells that last_n_chars removed the line's first characters.            *)
(***************************************************************************)
EXTENDS Integers, Sequences, FiniteSets, TLC

\* ---------------------------------------------------------------- bounds
MaxLines == 2       \* lines the child writes, both streams together
MaxJoins == 1       \* join_process calls made through the tool surface
MaxCancels == 2     \* cancel_process calls made through the tool surface
StdoutLineChars == 600       \* characters of a stdout line, newline included
StderrLineChars == 300       \* characters of a stderr line, newline included
MaxTicks == 14      \* ticks of the cleanup worker's interval that are followed
MaxRequests == 3    \* requests sent to one HandlerRuntime
MaxJobs == 2        \* jobs started one after the other

\* ------------------------------------------------------ program constants
JoinSummaryChars == 1000     \* last_n_chars(&summary, 1000)
RunningPrefixChars == 67     \* "Command is still running - ... monitoring\n"
CleanupIntervalSecs == 300   \* tokio::time::interval(Duration::from_secs(300))
MaxAgeSecs == 3600           \* let max_age = Duration::from_secs(3600)

\* the ids start_process mints; every supervisor operation reads and writes
\* the record of the id it is given and no other, so one job is followed
ProcIds == {1}
JobIds == 1..MaxJobs
\* exit codes of the child; -1 is status.code().unwrap_or(-1) of a child
\* killed by a signal
ExitCodes == {0, -1}
\* the handler attached to a job: none (exact mode, no handler found or no
\* match), or a script; "echo" returns its input, "buffer" keeps silent until
\* the final call and then returns its input, "throws" raises an exception in
\* every summarize call
HandlerKinds == {"none", "echo", "buffer", "throws"}

VARIABLES
    processes,   \* ProcessManager.processes: id -> ProcessTask
    nextId,      \* ids minted so far (ProcessId::new is fresh every time)
    tasks,       \* the executor task spawned for each job
    execs,       \* execute_command_streaming frames, one per job
    joins,       \* join_process calls of the tool surface that have not returned
    joinsMade,   \* number of join_process calls made through the tool surface
    lastJoin,    \* the join_process call that returned last, with its update
    cancels,     \* cancel_process calls: how many were made, how many returned true
    returned,    \* id -> the chunks join_process has returned so far, and the
                 \* number of characters last_n_chars has cut off
    fired,       \* id -> number of complete_tx.send(true) calls
    lastExecute, \* how the last execute_command_streaming call got past its
                 \* handler set-up
    lastStatus,  \* what the last status query returned
    runtime,     \* a HandlerRuntime: its channel, its worker and the replies
    setup,       \* what the last execute made of its request before spawning
    lock,        \* the RwLock of the map: the writer and the readers holding it
    actors,      \* where spawn, the executor task, a join and the cancels are
    clock,       \* SystemTime::now(), in seconds since the supervisor was made
    terminalAt   \* id -> the clock when the record's state first was terminal,
                 \* -1 while it is Running

vars == <<processes, nextId, tasks, execs, joins, joinsMade, lastJoin, cancels,
          returned, fired, lastExecute, lastStatus, runtime, setup, lock,
          actors, clock, terminalAt>>

\* ------------------------------------------------------------------ text
LineChars(s) == IF s = "o" THEN StdoutLineChars ELSE StderrLineChars

\* format!("{}\n", l): the delta forwarded for line k of stream s
Line(s, k) == <<[s |-> s, k |-> k, n |-> LineChars(s), cut |-> FALSE]>>

RECURSIVE Chars(_)
Chars(t) == IF t = <<>> THEN 0 ELSE Head(t).n + Chars(Tail(t))

RECURSIVE DropChars(_, _)
DropChars(t, d) ==
    IF d = 0 \/ t = <<>> THEN t
    ELSE IF Head(t).n <= d THEN DropChars(Tail(t), d - Head(t).n)
    ELSE <<[Head(t) EXCEPT !.n = @ - d, !.cut = TRUE]>> \o Tail(t)

last_n_chars(s, n) ==
    IF Chars(s) <= n THEN s ELSE DropChars(s, Chars(s) - n)

\* ------------------------------------------------------------ handler
\* HandlerRuntime::summarize: the script's summarize(stdout, stderr, exit_code);
\* NoSummary stands for summary = None; exit_code is None or Some(c)
None == <<>>
Some(c) == <<c>>
NoSummary == <<[s |-> "null", k |-> 0, n |-> 0, cut |-> FALSE]>>
\* the Err the call returns when the script throws, its result does not
\* decode or the worker thread is gone
Err == <<[s |-> "err", k |-> 0, n |-> 0, cut |-> FALSE]>>

summarize(h, stdout, stderr, exit_code) ==
    IF h = "throws" THEN Err
    ELSE IF h = "echo" THEN stdout \o stderr
    ELSE IF h = "incremental"
    THEN IF exit_code = None THEN stdout \o stderr ELSE NoSummary
    ELSE IF exit_code = None THEN NoSummary
    ELSE stdout \o stderr

\* the log of the summarize requests a job's handler has received: how many
\* carried exit_code None, how many Some, and whether the last one carried Some
NoCalls == [deltas |-> 0, finals |-> 0, lastFinal |-> FALSE]
summarize_sent(calls, exit_code) ==
    IF exit_code = None
    THEN [calls EXCEPT !.deltas = @ + 1, !.lastFinal = FALSE]
    ELSE [calls EXCEPT !.finals = @ + 1, !.lastFinal = TRUE]

\* runtime::process: the incremental summary of one delta
process(stdout, stderr, h) ==
    IF h # "none" THEN summarize(h, stdout, stderr, None)
    ELSE stdout \o stderr

unwrap_or_default(summary) == IF summary = NoSummary THEN <<>> ELSE summary

\* ------------------------------------------------------------ states
Running == [tag |-> "Running"]
Completed(c) == [tag |-> "Completed", exit_code |-> c]
Cancelled == [tag |-> "Cancelled"]
Failed == [tag |-> "Failed"]
Terminal(st) == st.tag # "Running"

\* mutant: the two sections of the file are filled the wrong way round
write_output_swapped(stdout, stderr, exit_code) ==
    [written |-> TRUE, exit_code |-> exit_code, stdout |-> stderr, stderr |-> stdout]

\* output::write_output: the exit-code header, the stdout section, the stderr
\* section
write_output(stdout, stderr, exit_code) ==
    [written |-> TRUE, exit_code |-> exit_code, stdout |-> stdout, stderr |-> stderr]
NoFile == [written |-> FALSE]

\* ------------------------------------------------- supervisor operations
\* each takes the map and returns the map after the call (the write lock is
\* held for the whole call)

\* mutant: the insertion leaves every record of the map as a new one
start_process_resets(procs, id, now) ==
    [i \in DOMAIN procs \cup {id} |->
        [state |-> Running, started_at |-> now,
         raw_stdout |-> <<>>, raw_stderr |-> <<>>,
         delta_summary |-> <<>>, executor_handle |-> FALSE,
         complete |-> FALSE, file |-> NoFile]]

start_process(procs, id, now) ==
    [i \in DOMAIN procs \cup {id} |->
        IF i = id
        THEN [state |-> Running, started_at |-> now,
              raw_stdout |-> <<>>, raw_stderr |-> <<>>,
              delta_summary |-> <<>>, executor_handle |-> FALSE,
              complete |-> FALSE, file |-> NoFile]
        ELSE procs[i]]

register_handle(procs, id) ==
    IF id \in DOMAIN procs
    THEN [procs EXCEPT ![id].executor_handle = TRUE]
    ELSE procs

\* mutant: only the stdout delta reaches the handler and the delta summary
update_process_output_stdout_only(procs, id, stdout, stderr, h) ==
    [procs EXCEPT ![id].raw_stdout = @ \o stdout,
                  ![id].raw_stderr = @ \o stderr,
                  ![id].delta_summary =
                      @ \o unwrap_or_default(process(stdout, <<>>, h))]

\* mutant: a delta is put in front of what is there
update_process_output_prepend(procs, id, stdout, stderr, h) ==
    [procs EXCEPT ![id].raw_stdout = stdout \o @,
                  ![id].raw_stderr = stderr \o @,
                  ![id].delta_summary =
                      unwrap_or_default(process(stdout, stderr, h)) \o @]

\* process(..).await.unwrap() panics on Err: the accumulators were appended,
\* the write guard is released by the unwinding
update_process_output(procs, id, stdout, stderr, h) ==
    IF process(stdout, stderr, h) = Err
    THEN [procs EXCEPT ![id].raw_stdout = @ \o stdout,
                       ![id].raw_stderr = @ \o stderr]
    ELSE [procs EXCEPT ![id].raw_stdout = @ \o stdout,
                       ![id].raw_stderr = @ \o stderr,
                       ![id].delta_summary =
                           @ \o unwrap_or_default(process(stdout, stderr, h))]

\* update_process_output dropped at the handler's reply (the task was aborted):
\* the accumulators were appended, the summary never is
update_process_output_dropped(procs, id, stdout, stderr) ==
    [procs EXCEPT ![id].raw_stdout = @ \o stdout,
                  ![id].raw_stderr = @ \o stderr]

\* mutant: the final summary is put after what is pending
final_process_summary_appends(procs, id, exit_code, h) ==
    LET summary == summarize(h, procs[id].raw_stdout, procs[id].raw_stderr, Some(exit_code))
    IN  IF summary # NoSummary /\ summary # Err
        THEN [procs EXCEPT ![id].delta_summary = @ \o summary]
        ELSE procs

final_process_summary(procs, id, exit_code, h) ==
    LET summary == summarize(h, procs[id].raw_stdout, procs[id].raw_stderr, Some(exit_code))
    IN  IF summary # NoSummary /\ summary # Err
        THEN [procs EXCEPT ![id].delta_summary = summary]
        ELSE procs

\* mutant: the signal is sent and the file written, the state is left Running
complete_process_signal_only(procs, id, exit_code) ==
    [procs EXCEPT ![id].file = write_output(procs[id].raw_stdout,
                                            procs[id].raw_stderr, exit_code),
                  ![id].complete = TRUE]

complete_process(procs, id, exit_code) ==
    [procs EXCEPT ![id].state = Completed(exit_code),
                  ![id].file = write_output(procs[id].raw_stdout,
                                            procs[id].raw_stderr, exit_code),
                  ![id].complete = TRUE]

fail_process(procs, id) ==
    [procs EXCEPT ![id].state = Failed,
                  ![id].complete = TRUE]

\* mutant: the age alone decides
to_remove_by_age(procs, now) ==
    {id \in DOMAIN procs : now - procs[id].started_at > MaxAgeSecs}

\* the body of the cleanup worker's loop: the records in a terminal state
\* that were started more than max_age before now are removed
to_remove(procs, now) ==
    {id \in DOMAIN procs :
        /\ Terminal(procs[id].state)
        /\ now - procs[id].started_at > MaxAgeSecs}

cleanup(procs, now) ==
    [id \in DOMAIN procs \ to_remove(procs, now) |-> procs[id]]

\* mutant: cancelling a job throws its captured output away
cancel_process_clears_output(procs, id) ==
    IF id \in DOMAIN procs /\ procs[id].executor_handle
    THEN [procs EXCEPT ![id].state = Cancelled,
                       ![id].raw_stdout = <<>>,
                       ![id].raw_stderr = <<>>]
    ELSE procs

\* mutant: a record without a handle is cancelled too
cancel_process_without_handle(procs, id) ==
    IF id \in DOMAIN procs
    THEN [procs EXCEPT ![id].state = Cancelled]
    ELSE procs

\* cancel_process: the map after the call, and the value returned
cancel_process(procs, id) ==
    IF id \in DOMAIN procs /\ procs[id].executor_handle
    THEN [procs EXCEPT ![id].state = Cancelled]
    ELSE procs

cancel_process_returns(procs, id) ==
    id \in DOMAIN procs /\ procs[id].executor_handle

\* get_process_status: a clone of the record's ProcessInfo, or None
get_process_status(procs, id) ==
    IF id \in DOMAIN procs
    THEN [kind |-> "info",
          info |-> [id |-> id,
                    state |-> procs[id].state,
                    started_at |-> procs[id].started_at,
                    raw_stdout |-> procs[id].raw_stdout,
                    raw_stderr |-> procs[id].raw_stderr]]
    ELSE [kind |-> "None"]

\* mutant: the summary carries the accumulators themselves
get_process_status_summary_with_bodies(procs, id) ==
    IF id \in DOMAIN procs
    THEN [kind |-> "summary",
          info |-> [id |-> id,
                    state |-> procs[id].state,
                    started_at |-> procs[id].started_at,
                    raw_stdout |-> procs[id].raw_stdout,
                    raw_stderr |-> procs[id].raw_stderr]]
    ELSE [kind |-> "None"]

\* get_process_status_summary: the snapshot with the lengths of the
\* accumulators in place of their text, or None
get_process_status_summary(procs, id) ==
    IF id \in DOMAIN procs
    THEN [kind |-> "summary",
          info |-> [id |-> id,
                    state |-> procs[id].state,
                    started_at |-> procs[id].started_at,
                    stdout_length |-> Chars(procs[id].raw_stdout),
                    stderr_length |-> Chars(procs[id].raw_stderr)]]
    ELSE [kind |-> "None"]

\* join_process after the wait: the update returned and the map after it
join_process_update(procs, id) ==
    IF id \in DOMAIN procs
    THEN [incremental_summary |-> last_n_chars(procs[id].delta_summary, JoinSummaryChars),
          status |-> procs[id].state]
    ELSE [status |-> [tag |-> "None"]]

\* mutant: a join that finds the job still Running ends it
join_process_ends_job(procs, id) ==
    IF id \in DOMAIN procs
    THEN [procs EXCEPT ![id].delta_summary = <<>>,
                       ![id].state = IF @ = Running THEN Cancelled ELSE @]
    ELSE procs

\* mutant: the delta summary of a job that has ended is not taken
join_process_keeps_ended(procs, id) ==
    IF id \in DOMAIN procs /\ procs[id].state = Running
    THEN [procs EXCEPT ![id].delta_summary = <<>>]
    ELSE procs

join_process(procs, id) ==
    IF id \in DOMAIN procs
    THEN [procs EXCEPT ![id].delta_summary = <<>>]
    ELSE procs

\* ------------------------------------------------------------ orchestrator
NoResult == [kind |-> "none"]
Panicked == [kind |-> "panic"]
RunningPrefix == <<[s |-> "prefix", k |-> 0, n |-> RunningPrefixChars, cut |-> FALSE]>>

\* mutant: the Running result carries the bare incremental summary and no
\* Status action
ExecutionResult_bare_running(id, update) ==
    IF update.status.tag = "Running"
    THEN [kind |-> "ok",
          summary |-> update.incremental_summary,
          exit_code |-> -1,
          truncated |-> FALSE,
          truncation_reason |-> "timeout",
          process_id |-> id,
          is_running |-> TRUE,
          available_actions |-> <<"Join", "Cancel">>]
    ELSE IF update.status.tag = "Completed"
    THEN [kind |-> "ok",
          summary |-> update.incremental_summary,
          exit_code |-> update.status.exit_code,
          truncated |-> FALSE,
          truncation_reason |-> "ignore",
          process_id |-> id,
          is_running |-> FALSE,
          available_actions |-> <<>>]
    ELSE Panicked

\* mutant: the Completed result still offers the Status action
ExecutionResult_completed_status(id, update) ==
    IF update.status.tag = "Running"
    THEN [kind |-> "ok",
          summary |-> RunningPrefix \o update.incremental_summary,
          exit_code |-> -1,
          truncated |-> FALSE,
          truncation_reason |-> "timeout",
          process_id |-> id,
          is_running |-> TRUE,
          available_actions |-> <<"Join", "Cancel", "Status">>]
    ELSE IF update.status.tag = "Completed"
    THEN [kind |-> "ok",
          summary |-> update.incremental_summary,
          exit_code |-> update.status.exit_code,
          truncated |-> FALSE,
          truncation_reason |-> "ignore",
          process_id |-> id,
          is_running |-> FALSE,
          available_actions |-> <<"Status">>]
    ELSE Panicked

\* the match on status.status in execute_command_streaming
ExecutionResult(id, update) ==
    IF update.status.tag = "Running"
    THEN [kind |-> "ok",
          summary |-> RunningPrefix \o update.incremental_summary,
          exit_code |-> -1,
          truncated |-> FALSE,
          truncation_reason |-> "timeout",
          process_id |-> id,
          is_running |-> TRUE,
          available_actions |-> <<"Join", "Cancel", "Status">>]
    ELSE IF update.status.tag = "Completed"
    THEN [kind |-> "ok",
          summary |-> update.incremental_summary,
          exit_code |-> update.status.exit_code,
          truncated |-> FALSE,
          truncation_reason |-> "ignore",
          process_id |-> id,
          is_running |-> FALSE,
          available_actions |-> <<>>]
    ELSE Panicked

\* ------------------------------------------------------------------ state
Ext(f, id, v) == [i \in DOMAIN f \cup {id} |-> IF i = id THEN v ELSE f[i]]

Chunks(t) == {t[i] : i \in DOMAIN t}
SetToSeq(cs) == CHOOSE t \in [1..Cardinality(cs) -> cs] : Chunks(t) = cs
Material(t) == {<<t[i].s, t[i].k>> : i \in DOMAIN t}
MaterialOf(cs) == {<<c.s, c.k>> : c \in cs}

Live(t) == t.pc \in {"read", "final", "complete"}

\* where the executor task is after a call that unwraps the handler's reply
AfterSummarize(h, next) == IF process(<<>>, <<>>, h) = Err THEN "panicked" ELSE next

NoExecute == [outcome |-> "none", handler_error |-> "none"]
\* the steps of the handler set-up that return a Result
HandlerSteps == {"load_handler", "matches", "create_handler", "prepare"}

\* terminalAt after a step that left the map as procs at time now
Stamp(procs, ta, now) ==
    [i \in DOMAIN ta \cup DOMAIN procs |->
        IF i \in DOMAIN ta /\ ta[i] >= 0 THEN ta[i]
        ELSE IF i \in DOMAIN procs /\ Terminal(procs[i].state) THEN now
        ELSE -1]

\* ------------------------------------------------------- execute's set-up
\* environments: maps from some of the keys to a value, which is named after
\* who set it (the agent's request, the handler's prepare, the host process)
EnvKeys == {"CARGO_TERM_COLOR", "RUST_LOG"}
Envs(values) == UNION {[S -> values] : S \in SUBSET EnvKeys}
NoEnv == <<>>

\* the requests, with an env the agent wrote or copied from the host's
Requests == [cmd : {"shelly-test", "cargo"},
             args : {<<>>, <<"build">>},
             exact : BOOLEAN,
             env : Envs({"request", "host"})]

\* what prepare returns, and the handler the runtime then holds
Preps == [cmd : {"echo"}, args : {<<"hi">>}, env : Envs({"handler"}),
          handler : HandlerKinds \ {"none"}]

\* the environment of the host process
HostEnvs == Envs({"host"})

\* what the look-up finds: no handler file, one that does not match, one that
\* matches, or one whose step fails
HandlerCases == {"absent", "nomatch", "match"} \cup HandlerSteps
StepOrder == <<"load_handler", "matches", "create_handler", "prepare">>
CallsUpTo(step) ==
    SubSeq(StepOrder, 1, CHOOSE i \in DOMAIN StepOrder : StepOrder[i] = step)

\* mutant: on a key of both maps the value of the first stays
extend_keeps(a, b) ==
    [k \in DOMAIN a \cup DOMAIN b |-> IF k \in DOMAIN a THEN a[k] ELSE b[k]]

\* HashMap::extend: the pairs of b are inserted into a
extend(a, b) ==
    [k \in DOMAIN a \cup DOMAIN b |-> IF k \in DOMAIN b THEN b[k] ELSE a[k]]

\* Command::env_remove
env_remove(env, key) == [k \in DOMAIN env \ {key} |-> env[k]]

\* mutant: create_handler and prepare are called and prepare's command is
\* taken whatever matches returned
resolve_handler_always_prepares(request, case, prep) ==
    IF case = "absent"
    THEN [outcome |-> "ok", lookup |-> TRUE, calls |-> <<>>,
          cmd |-> request.cmd, args |-> request.args, env |-> NoEnv,
          rt |-> "none"]
    ELSE IF case \in {"nomatch", "match"}
    THEN [outcome |-> "ok", lookup |-> TRUE, calls |-> CallsUpTo("prepare"),
          cmd |-> prep.cmd, args |-> prep.args, env |-> prep.env,
          rt |-> prep.handler]
    ELSE [outcome |-> "err", lookup |-> TRUE, calls |-> CallsUpTo(case),
          cmd |-> request.cmd, args |-> request.args, env |-> NoEnv,
          rt |-> "none"]

\* the non-exact branches of the set-up: find_handler, then load_handler,
\* matches, create_handler and prepare, each returned from with `?` on Err
resolve_handler(request, case, prep) ==
    IF case = "absent"
    THEN [outcome |-> "ok", lookup |-> TRUE, calls |-> <<>>,
          cmd |-> request.cmd, args |-> request.args, env |-> NoEnv,
          rt |-> "none"]
    ELSE IF case = "nomatch"
    THEN [outcome |-> "ok", lookup |-> TRUE, calls |-> CallsUpTo("matches"),
          cmd |-> request.cmd, args |-> request.args, env |-> NoEnv,
          rt |-> "none"]
    ELSE IF case = "match"
    THEN [outcome |-> "ok", lookup |-> TRUE, calls |-> CallsUpTo("prepare"),
          cmd |-> prep.cmd, args |-> prep.args, env |-> prep.env,
          rt |-> prep.handler]
    ELSE [outcome |-> "err", lookup |-> TRUE, calls |-> CallsUpTo(case),
          cmd |-> request.cmd, args |-> request.args, env |-> NoEnv,
          rt |-> "none"]

\* mutant: the handler is looked up whatever exact says
resolve_ignores_exact(request, case, prep) == resolve_handler(request, case, prep)

\* (final_cmd, final_args, handler_env, rt) of execute_command_streaming
resolve(request, case, prep) ==
    IF request.exact
    THEN [outcome |-> "ok", lookup |-> FALSE, calls |-> <<>>,
          cmd |-> request.cmd, args |-> request.args, env |-> NoEnv,
          rt |-> "none"]
    ELSE resolve_handler(request, case, prep)

\* the environment of the child: the host's, inherited, without RUST_LOG,
\* then the pairs of config.env
child_environment(host, env) == extend(env_remove(host, "RUST_LOG"), env)

NoSetup == [outcome |-> "none"]

\* execute_command_streaming up to the spawn of the child
execute_setup(request, case, prep, host) ==
    LET r == resolve(request, case, prep)
        final_env == extend(request.env, r.env)
    IN  IF r.outcome = "err"
        THEN [outcome |-> "err", request |-> request, case |-> case,
              lookup |-> r.lookup, calls |-> r.calls]
        ELSE [outcome |-> "config", request |-> request, case |-> case,
              prep |-> prep, host |-> host,
              lookup |-> r.lookup, calls |-> r.calls,
              config |-> [cmd |-> r.cmd, args |-> r.args, env |-> final_env,
                          handler |-> r.rt],
              child_env |-> child_environment(host, final_env)]

\* ------------------------------------------------------- the map's lock
\* RwLock::new: nobody holds it
NewLock == [writer |-> "none", readers |-> {}]

\* write().await returns: no writer and no reader holds the lock
CanWrite(l) == l.writer = "none" /\ l.readers = {}
\* read().await returns: no writer holds the lock
CanRead(l) == l.writer = "none"

\* nothing was called yet: no job, no executor task, no join, no cancel
NewActors == [spawner |-> "new", executor |-> "absent", h |-> "none",
              lines |-> 0, aborted |-> FALSE,
              joiner |-> "idle", by |-> "none",
              join |-> [status |-> [tag |-> "none"]],
              cancel |-> [n |-> 0, ret |-> FALSE, at |-> "none"]]

\* the second half of update_process_output: the summary is appended
append_summary(procs, id, stdout, stderr, h) ==
    [procs EXCEPT ![id].delta_summary =
                      @ \o unwrap_or_default(process(stdout, stderr, h))]

\* ----------------------------------------------------------- handler runtime
RequestKinds == {"LoadHandler", "Matches", "CreateHandler", "Prepare", "Summarize"}

\* HandlerRuntimeInner::new: a JS runtime with no handler and no instance
NewInner == [handler |-> FALSE, instance |-> FALSE]

\* what the evaluation of a request leaves in the JS runtime: load_handler
\* sets globalThis.handler, create_handler sets globalThis.__handler from it
evaluate_state(kind, st) ==
    IF kind = "LoadHandler" THEN [st EXCEPT !.handler = TRUE]
    ELSE IF kind = "CreateHandler" /\ st.handler THEN [st EXCEPT !.instance = TRUE]
    ELSE st

\* the result of the evaluation: Ok when the script finds what it names
evaluate(kind, st) ==
    [of |-> kind,
     ok |-> IF kind = "LoadHandler" THEN TRUE
            ELSE IF kind \in {"Matches", "CreateHandler"} THEN st.handler
            ELSE st.instance]

\* HandlerRuntime::new: an empty channel and a worker with a new JS runtime
NewRuntime == [sent |-> <<>>, queue |-> <<>>, evaluating |-> {}, order |-> <<>>,
               replies |-> <<>>, inner |-> NewInner]

\* mutant: the worker takes the request sent last
recv_newest(queue) ==
    [req |-> queue[Len(queue)], rest |-> SubSeq(queue, 1, Len(queue) - 1)]

\* rx.recv() on the unbounded channel: the request sent first
recv(queue) == [req |-> Head(queue), rest |-> Tail(queue)]

NoStatus == [id |-> 0, terminal |-> FALSE, reply |-> [kind |-> "none"]]

NoJoin == [id |-> 0, caller |-> "none", known |-> FALSE, by |-> "none",
           seenBefore |-> {}, update |-> [status |-> [tag |-> "none"]]]

\* the record of what the joins on id have returned, after one more update
Drained(ret, procs, id, update) ==
    IF id \in DOMAIN procs
    THEN [ret EXCEPT ![id].chunks = @ \cup Chunks(update.incremental_summary),
                     ![id].cut = @ + Chars(procs[id].delta_summary)
                                   - Chars(update.incremental_summary)]
    ELSE ret

Init ==
    /\ processes = <<>>
    /\ nextId = 0
    /\ tasks = <<>>
    /\ execs = <<>>
    /\ joins = <<>>
    /\ joinsMade = 0
    /\ lastJoin = NoJoin
    /\ cancels = [n |-> 0, ok |-> [i \in ProcIds |-> 0]]
    /\ returned = <<>>
    /\ fired = <<>>
    /\ lastExecute = NoExecute
    /\ lastStatus = NoStatus
    /\ runtime = NewRuntime
    /\ setup = NoSetup
    /\ lock = NewLock
    /\ actors = NewActors
    /\ clock = 0
    /\ terminalAt = <<>>

\* execute_command_streaming up to tokio::spawn inside streaming_executor::spawn:
\* the handler set-up went through (h is the handler attached, "none" in exact
\* mode, without a handler file or without a match), start_process has
\* inserted the record and the executor task exists
ExecuteJob(h, limit) ==
    /\ nextId < limit
    /\ LET id == nextId + 1 IN
        /\ nextId' = id
        /\ processes' = start_process(processes, id, clock)
        /\ terminalAt' = Stamp(processes', terminalAt, clock)
        /\ tasks' = Ext(tasks, id, [pc |-> "read", aborted |-> FALSE, h |-> h,
                                    outN |-> 0, errN |-> 0, exit_code |-> 0,
                                    errUnread |-> 0, calls |-> NoCalls])
        /\ execs' = Ext(execs, id, [pc |-> "spawned", by |-> "none", seenBefore |-> {},
                                    result |-> NoResult])
        /\ returned' = Ext(returned, id, [chunks |-> {}, cut |-> 0])
        /\ fired' = Ext(fired, id, 0)
    /\ lastExecute' = [outcome |-> "spawned", handler_error |-> "none"]
    /\ UNCHANGED <<joins, joinsMade, lastJoin, cancels, lastStatus, runtime,
                   setup, lock, actors, clock>>

\* an execute call while one job at a time is followed
Execute(h) == ExecuteJob(h, Cardinality(ProcIds))

\* execute_command_streaming with exact = false whose handler set-up fails:
\* the error of the failing step is returned with `?` and no job is started
ExecuteHandlerError(step) ==
    /\ nextId < Cardinality(ProcIds)
    /\ lastExecute' = [outcome |-> "err", handler_error |-> step]
    /\ UNCHANGED <<processes, nextId, tasks, execs, joins, joinsMade, lastJoin,
                   cancels, returned, fired, lastStatus, runtime, setup, lock,
                   actors, clock, terminalAt>>

\* streaming_executor::spawn registers the handle; execute then calls
\* join_process, whose wait_for finds the record and starts waiting
RegisterHandle(id) ==
    /\ id \in DOMAIN execs
    /\ execs[id].pc = "spawned"
    /\ processes' = register_handle(processes, id)
    /\ execs' = [execs EXCEPT ![id].pc = "waiting",
                              ![id].seenBefore = MaterialOf(returned[id].chunks)]
    /\ UNCHANGED <<nextId, tasks, joins, joinsMade, lastJoin, cancels, returned,
                   fired, lastExecute, lastStatus, runtime, setup, lock, actors,
                   clock, terminalAt>>

\* ------------------------------------------------------------ executor task
\* one stdout line read in the select! loop and forwarded
TaskStdoutLine(id) ==
    /\ id \in DOMAIN tasks
    /\ id \in DOMAIN processes
    /\ tasks[id].pc = "read"
    /\ tasks[id].outN + tasks[id].errN < MaxLines
    /\ processes' = update_process_output(
                        processes, id, Line("o", tasks[id].outN + 1), <<>>, tasks[id].h)
    /\ tasks' = [tasks EXCEPT
                    ![id].outN = @ + 1,
                    ![id].pc = AfterSummarize(tasks[id].h, "read"),
                    ![id].calls = IF tasks[id].h # "none"
                                  THEN summarize_sent(@, None) ELSE @]
    /\ UNCHANGED <<nextId, execs, joins, joinsMade, lastJoin, cancels, returned,
                   fired, lastExecute, lastStatus, runtime, setup, lock, actors,
                   clock, terminalAt>>

\* one stderr line read in the select! loop and forwarded
TaskStderrLine(id) ==
    /\ id \in DOMAIN tasks
    /\ id \in DOMAIN processes
    /\ tasks[id].pc = "read"
    /\ tasks[id].outN + tasks[id].errN < MaxLines
    /\ processes' = update_process_output(
                        processes, id, <<>>, Line("e", tasks[id].errN + 1), tasks[id].h)
    /\ tasks' = [tasks EXCEPT
                    ![id].errN = @ + 1,
                    ![id].pc = AfterSummarize(tasks[id].h, "read"),
                    ![id].calls = IF tasks[id].h # "none"
                                  THEN summarize_sent(@, None) ELSE @]
    /\ UNCHANGED <<nextId, execs, joins, joinsMade, lastJoin, cancels, returned,
                   fired, lastExecute, lastStatus, runtime, setup, lock, actors,
                   clock, terminalAt>>

\* an aborted task that was in the middle of a poll takes the write lock,
\* appends the delta, sends the summarize request and is dropped when it
\* suspends on the handler's reply
TaskUpdateDropped(id) ==
    /\ id \in DOMAIN tasks
    /\ id \in DOMAIN processes
    /\ tasks[id].pc = "read"
    /\ tasks[id].aborted
    /\ tasks[id].h # "none"
    /\ tasks[id].outN + tasks[id].errN < MaxLines
    /\ \/ processes' = update_process_output_dropped(
                           processes, id, Line("o", tasks[id].outN + 1), <<>>)
       \/ processes' = update_process_output_dropped(
                           processes, id, <<>>, Line("e", tasks[id].errN + 1))
    /\ tasks' = [tasks EXCEPT ![id].pc = "dropped",
                              ![id].calls = summarize_sent(@, None)]
    /\ UNCHANGED <<nextId, execs, joins, joinsMade, lastJoin, cancels, returned,
                   fired, lastExecute, lastStatus, runtime, setup, lock, actors,
                   clock, terminalAt>>

\* stdout reports EOF: the loop breaks, whatever the child wrote to stderr and
\* the loop has not read yet (n lines) stays in the pipe; child.wait() yields
\* the exit code (status.code().unwrap_or(-1))
TaskStdoutEOF(id) ==
    /\ id \in DOMAIN tasks
    /\ tasks[id].pc = "read"
    /\ \E c \in ExitCodes, n \in 0..(MaxLines - tasks[id].outN - tasks[id].errN) :
        tasks' = [tasks EXCEPT ![id].exit_code = c,
                               ![id].errUnread = n,
                               ![id].pc = IF tasks[id].h # "none" THEN "final"
                                          ELSE "complete"]
    /\ UNCHANGED <<processes, nextId, execs, joins, joinsMade, lastJoin,
                   cancels, returned, fired, lastExecute, lastStatus, runtime,
                   setup, lock, actors, clock, terminalAt>>

TaskFinalSummary(id) ==
    /\ id \in DOMAIN tasks
    /\ id \in DOMAIN processes
    /\ tasks[id].pc = "final"
    /\ processes' = final_process_summary(processes, id, tasks[id].exit_code, tasks[id].h)
    /\ tasks' = [tasks EXCEPT
                    ![id].pc = AfterSummarize(tasks[id].h, "complete"),
                    ![id].calls = summarize_sent(@, Some(tasks[id].exit_code))]
    /\ UNCHANGED <<nextId, execs, joins, joinsMade, lastJoin, cancels, returned,
                   fired, lastExecute, lastStatus, runtime, setup, lock, actors,
                   clock, terminalAt>>

\* an aborted task in the middle of a poll sends the final summarize request
\* and is dropped when it suspends on the handler's reply
TaskFinalDropped(id) ==
    /\ id \in DOMAIN tasks
    /\ tasks[id].pc = "final"
    /\ tasks[id].aborted
    /\ tasks' = [tasks EXCEPT
                    ![id].pc = "dropped",
                    ![id].calls = summarize_sent(@, Some(tasks[id].exit_code))]
    /\ UNCHANGED <<processes, nextId, execs, joins, joinsMade, lastJoin,
                   cancels, returned, fired, lastExecute, lastStatus, runtime,
                   setup, lock, actors, clock, terminalAt>>

TaskComplete(id) ==
    /\ id \in DOMAIN tasks
    /\ id \in DOMAIN processes
    /\ tasks[id].pc = "complete"
    /\ processes' = complete_process(processes, id, tasks[id].exit_code)
    /\ terminalAt' = Stamp(processes', terminalAt, clock)
    /\ fired' = [fired EXCEPT ![id] = @ + 1]
    /\ tasks' = [tasks EXCEPT ![id].pc = "done"]
    /\ UNCHANGED <<nextId, execs, joins, joinsMade, lastJoin, cancels, returned,
                   lastExecute, lastStatus, runtime, setup, lock, actors,
                   clock>>

\* mutant: execute_streaming_internal returns the Err without reporting it
TaskFail_unreported(id) ==
    /\ id \in DOMAIN tasks
    /\ tasks[id].pc = "read"
    /\ tasks' = [tasks EXCEPT ![id].pc = "failed"]
    /\ UNCHANGED <<processes, nextId, execs, joins, joinsMade, lastJoin,
                   cancels, returned, fired, lastExecute, lastStatus, runtime,
                   setup, lock, actors, clock, terminalAt>>

\* execute_streaming_inner returned Err (parse, spawn, pipe read or wait
\* failure): execute_streaming_internal calls fail_process
TaskFail(id) ==
    /\ id \in DOMAIN tasks
    /\ id \in DOMAIN processes
    /\ tasks[id].pc = "read"
    /\ processes' = fail_process(processes, id)
    /\ terminalAt' = Stamp(processes', terminalAt, clock)
    /\ fired' = [fired EXCEPT ![id] = @ + 1]
    /\ tasks' = [tasks EXCEPT ![id].pc = "failed"]
    /\ UNCHANGED <<nextId, execs, joins, joinsMade, lastJoin, cancels, returned,
                   lastExecute, lastStatus, runtime, setup, lock, actors,
                   clock>>

\* JoinHandle::abort takes effect when the task next suspends
TaskDrop(id) ==
    /\ id \in DOMAIN tasks
    /\ Live(tasks[id])
    /\ tasks[id].aborted
    /\ tasks' = [tasks EXCEPT ![id].pc = "dropped"]
    /\ UNCHANGED <<processes, nextId, execs, joins, joinsMade, lastJoin,
                   cancels, returned, fired, lastExecute, lastStatus, runtime,
                   setup, lock, actors, clock, terminalAt>>

\* ------------------------------------------------------------ tool surface
CancelProcess(id) ==
    /\ cancels.n < MaxCancels
    /\ processes' = cancel_process(processes, id)
    /\ terminalAt' = Stamp(processes', terminalAt, clock)
    /\ LET ret == cancel_process_returns(processes, id) IN
        /\ cancels' = [n |-> cancels.n + 1,
                       ok |-> IF ret THEN [cancels.ok EXCEPT ![id] = @ + 1]
                              ELSE cancels.ok]
        /\ tasks' = IF ret /\ Live(tasks[id])
                    THEN [tasks EXCEPT ![id].aborted = TRUE]
                    ELSE tasks
    /\ UNCHANGED <<nextId, execs, joins, joinsMade, lastJoin, returned, fired,
                   lastExecute, lastStatus, runtime, setup, lock, actors,
                   clock>>

\* tokio::time::timeout(timeout, wait_for): the receiver sees true, or the
\* timeout elapses first
WokenBy(procs, id) == IF procs[id].complete THEN "signal" ELSE "timeout"

\* join_process, first part: wait_for looks the record up under the read lock
\* (processes.get(process_id).unwrap()) and starts waiting on its receiver; on
\* an id that is not in the map the unwrap panics
JoinBegin(id) ==
    /\ joinsMade < MaxJoins
    /\ joinsMade' = joinsMade + 1
    /\ IF id \in DOMAIN processes
       THEN /\ joins' = Append(joins, [id |-> id, pc |-> "waiting", by |-> "none",
                                       seenBefore |-> MaterialOf(returned[id].chunks)])
            /\ UNCHANGED lastJoin
       ELSE /\ lastJoin' = [id |-> id, caller |-> "tool", known |-> FALSE,
                            by |-> "none", seenBefore |-> {},
                            update |-> [status |-> [tag |-> "panic"]]]
            /\ UNCHANGED joins
    /\ UNCHANGED <<processes, nextId, tasks, execs, cancels, returned, fired,
                   lastExecute, lastStatus, runtime, setup, lock, actors, clock,
                   terminalAt>>

JoinWake(j) ==
    /\ j \in DOMAIN joins
    /\ joins[j].pc = "waiting"
    /\ joins' = [joins EXCEPT ![j].pc = "woken",
                              ![j].by = WokenBy(processes, joins[j].id)]
    /\ UNCHANGED <<processes, nextId, tasks, execs, joinsMade, lastJoin,
                   cancels, returned, fired, lastExecute, lastStatus, runtime,
                   setup, lock, actors, clock, terminalAt>>

Remove(q, j) == [i \in 1..(Len(q) - 1) |-> IF i < j THEN q[i] ELSE q[i + 1]]

\* join_process, second part: under the write lock the delta summary is taken
\* and the update returned
JoinReturn(j) ==
    /\ j \in DOMAIN joins
    /\ joins[j].pc = "woken"
    /\ LET id == joins[j].id
           update == join_process_update(processes, id)
       IN
        /\ processes' = join_process(processes, id)
        /\ returned' = Drained(returned, processes, id, update)
        /\ lastJoin' = [id |-> id, caller |-> "tool", known |-> TRUE,
                        by |-> joins[j].by,
                        seenBefore |-> joins[j].seenBefore, update |-> update]
    /\ joins' = Remove(joins, j)
    /\ UNCHANGED <<nextId, tasks, execs, joinsMade, cancels, fired, lastExecute,
                   lastStatus, runtime, setup, lock, actors, clock, terminalAt>>

\* the join_process call made by execute_command_streaming
ExecJoinWake(id) ==
    /\ id \in DOMAIN execs
    /\ execs[id].pc = "waiting"
    /\ execs' = [execs EXCEPT ![id].pc = "woken", ![id].by = WokenBy(processes, id)]
    /\ UNCHANGED <<processes, nextId, tasks, joins, joinsMade, lastJoin,
                   cancels, returned, fired, lastExecute, lastStatus, runtime,
                   setup, lock, actors, clock, terminalAt>>

\* execute builds its result from the update its join returned
ExecJoinReturn(id) ==
    /\ id \in DOMAIN execs
    /\ execs[id].pc = "woken"
    /\ LET update == join_process_update(processes, id) IN
        /\ processes' = join_process(processes, id)
        /\ returned' = Drained(returned, processes, id, update)
        /\ lastJoin' = [id |-> id, caller |-> "execute", known |-> TRUE,
                        by |-> execs[id].by,
                        seenBefore |-> execs[id].seenBefore, update |-> update]
        /\ execs' = [execs EXCEPT ![id].pc = "returned", ![id].by = "none",
                                  ![id].seenBefore = {},
                                  ![id].result = ExecutionResult(id, update)]
    /\ UNCHANGED <<nextId, tasks, joins, joinsMade, cancels, fired, lastExecute,
                   lastStatus, runtime, setup, lock, actors, clock, terminalAt>>

\* ---------------------------------------------------------- status queries
\* the record of id is in the map and in a terminal state
IsTerminal(procs, id) == id \in DOMAIN procs /\ Terminal(procs[id].state)

\* a get_process_status call, under the read lock
GetProcessStatus(id) ==
    /\ lastStatus' = [id |-> id, terminal |-> IsTerminal(processes, id),
                      reply |-> get_process_status(processes, id)]
    /\ UNCHANGED <<processes, nextId, tasks, execs, joins, joinsMade, lastJoin,
                   cancels, returned, fired, lastExecute, runtime, setup, lock,
                   actors, clock, terminalAt>>

\* the process_status tool: get_process_status_summary, under the read lock
ProcessStatus(id) ==
    /\ lastStatus' = [id |-> id, terminal |-> IsTerminal(processes, id),
                      reply |-> get_process_status_summary(processes, id)]
    /\ UNCHANGED <<processes, nextId, tasks, execs, joins, joinsMade, lastJoin,
                   cancels, returned, fired, lastExecute, runtime, setup, lock,
                   actors, clock, terminalAt>>

\* --------------------------------------------- the operations and the lock
\* streaming_executor::spawn, first part: start_process takes the write lock,
\* inserts the record and releases; the executor task is spawned
LockSpawn(id, h) ==
    /\ actors.spawner = "new"
    /\ CanWrite(lock)
    /\ processes' = start_process(processes, id, clock)
    /\ actors' = [actors EXCEPT !.spawner = "started", !.executor = "idle", !.h = h]
    /\ UNCHANGED <<nextId, tasks, execs, joins, joinsMade, lastJoin, cancels,
                   returned, fired, lastExecute, lastStatus, runtime, setup,
                   lock, clock, terminalAt>>

\* streaming_executor::spawn, second part: register_handle
LockRegisterHandle(id) ==
    /\ actors.spawner = "started"
    /\ CanWrite(lock)
    /\ processes' = register_handle(processes, id)
    /\ actors' = [actors EXCEPT !.spawner = "registered"]
    /\ UNCHANGED <<nextId, tasks, execs, joins, joinsMade, lastJoin, cancels,
                   returned, fired, lastExecute, lastStatus, runtime, setup,
                   lock, clock, terminalAt>>

\* mutant: the accumulators are appended and the lock is not held on
LockUpdateBegin_unlocked(id) ==
    /\ actors.executor = "idle"
    /\ actors.lines < MaxLines
    /\ CanWrite(lock)
    /\ processes' = update_process_output_dropped(
                        processes, id, Line("o", actors.lines + 1), <<>>)
    /\ actors' = [actors EXCEPT !.executor = "summarizing"]
    /\ UNCHANGED <<nextId, tasks, execs, joins, joinsMade, lastJoin, cancels,
                   returned, fired, lastExecute, lastStatus, runtime, setup,
                   lock, clock, terminalAt>>

\* update_process_output up to the await of the handler's reply: the write
\* lock is taken and the accumulators are appended
LockUpdateBegin(id) ==
    /\ actors.executor = "idle"
    /\ actors.lines < MaxLines
    /\ CanWrite(lock)
    /\ lock' = [lock EXCEPT !.writer = "executor"]
    /\ processes' = update_process_output_dropped(
                        processes, id, Line("o", actors.lines + 1), <<>>)
    /\ actors' = [actors EXCEPT !.executor = "summarizing"]
    /\ UNCHANGED <<nextId, tasks, execs, joins, joinsMade, lastJoin, cancels,
                   returned, fired, lastExecute, lastStatus, runtime, setup,
                   clock, terminalAt>>

\* update_process_output from the reply on: the summary is appended and the
\* guard is dropped; on an Err the unwrap panics, which drops the guard too
LockUpdateEnd(id) ==
    /\ actors.executor = "summarizing"
    /\ lock' = [lock EXCEPT !.writer = "none"]
    /\ IF process(Line("o", actors.lines + 1), <<>>, actors.h) = Err
       THEN /\ actors' = [actors EXCEPT !.executor = "panicked"]
            /\ UNCHANGED processes
       ELSE /\ processes' = append_summary(processes, id,
                                Line("o", actors.lines + 1), <<>>, actors.h)
            /\ actors' = [actors EXCEPT !.executor = "idle", !.lines = @ + 1]
    /\ UNCHANGED <<nextId, tasks, execs, joins, joinsMade, lastJoin, cancels,
                   returned, fired, lastExecute, lastStatus, runtime, setup,
                   clock, terminalAt>>

\* complete_process, after stdout's EOF and child.wait()
LockComplete(id) ==
    /\ actors.executor = "idle"
    /\ CanWrite(lock)
    /\ processes' = complete_process(processes, id, 0)
    /\ actors' = [actors EXCEPT !.executor = "done"]
    /\ UNCHANGED <<nextId, tasks, execs, joins, joinsMade, lastJoin, cancels,
                   returned, fired, lastExecute, lastStatus, runtime, setup,
                   lock, clock, terminalAt>>

\* the abort takes effect when the task is next suspended
LockTaskDrop ==
    /\ actors.executor = "idle"
    /\ actors.aborted
    /\ actors' = [actors EXCEPT !.executor = "dropped"]
    /\ UNCHANGED <<processes, nextId, tasks, execs, joins, joinsMade, lastJoin,
                   cancels, returned, fired, lastExecute, lastStatus, runtime,
                   setup, lock, clock, terminalAt>>

\* wait_for, first statements: the read lock is taken, the record looked up
\* and its receiver cloned
LockWaitFor(id) ==
    /\ actors.joiner = "idle"
    /\ id \in DOMAIN processes
    /\ CanRead(lock)
    /\ lock' = [lock EXCEPT !.readers = @ \cup {"joiner"}]
    /\ actors' = [actors EXCEPT !.joiner = "cloned"]
    /\ UNCHANGED <<processes, nextId, tasks, execs, joins, joinsMade, lastJoin,
                   cancels, returned, fired, lastExecute, lastStatus, runtime,
                   setup, clock, terminalAt>>

\* mutant: the read guard lives until wait_for returns
LockWaitForDrop_kept ==
    /\ actors.joiner = "cloned"
    /\ actors' = [actors EXCEPT !.joiner = "waiting"]
    /\ UNCHANGED <<processes, nextId, tasks, execs, joins, joinsMade, lastJoin,
                   cancels, returned, fired, lastExecute, lastStatus, runtime,
                   setup, lock, clock, terminalAt>>

\* wait_for: drop(processes), then the wait on the receiver starts
LockWaitForDrop ==
    /\ actors.joiner = "cloned"
    /\ lock' = [lock EXCEPT !.readers = @ \ {"joiner"}]
    /\ actors' = [actors EXCEPT !.joiner = "waiting"]
    /\ UNCHANGED <<processes, nextId, tasks, execs, joins, joinsMade, lastJoin,
                   cancels, returned, fired, lastExecute, lastStatus, runtime,
                   setup, clock, terminalAt>>

\* the receiver sees true or the timeout elapses
LockJoinWake(id) ==
    /\ actors.joiner = "waiting"
    /\ actors' = [actors EXCEPT !.joiner = "woken", !.by = WokenBy(processes, id)]
    /\ UNCHANGED <<processes, nextId, tasks, execs, joins, joinsMade, lastJoin,
                   cancels, returned, fired, lastExecute, lastStatus, runtime,
                   setup, lock, clock, terminalAt>>

\* join_process after the wait: the write lock, the take, the update
LockJoinReturn(id) ==
    /\ actors.joiner = "woken"
    /\ CanWrite(lock)
    /\ processes' = join_process(processes, id)
    /\ actors' = [actors EXCEPT !.joiner = "returned",
                                 !.join = join_process_update(processes, id)]
    /\ UNCHANGED <<nextId, tasks, execs, joins, joinsMade, lastJoin, cancels,
                   returned, fired, lastExecute, lastStatus, runtime, setup,
                   lock, clock, terminalAt>>

\* a cancel_process call
LockCancel(id) ==
    /\ actors.cancel.n < MaxCancels
    /\ CanWrite(lock)
    /\ processes' = cancel_process(processes, id)
    /\ LET ret == cancel_process_returns(processes, id) IN
        actors' = [actors EXCEPT
                      !.cancel = [n |-> @.n + 1, ret |-> ret, at |-> actors.spawner],
                      !.aborted = @ \/ (ret /\ actors.executor = "idle")]
    /\ UNCHANGED <<nextId, tasks, execs, joins, joinsMade, lastJoin, cancels,
                   returned, fired, lastExecute, lastStatus, runtime, setup,
                   lock, clock, terminalAt>>

\* a get_process_status call
LockStatus(id) ==
    /\ CanRead(lock)
    /\ lastStatus' = [id |-> id, terminal |-> IsTerminal(processes, id),
                      reply |-> get_process_status(processes, id)]
    /\ UNCHANGED <<processes, nextId, tasks, execs, joins, joinsMade, lastJoin,
                   cancels, returned, fired, lastExecute, runtime, setup, lock,
                   actors, clock, terminalAt>>

\* ------------------------------------------------------ execute's set-up
\* a value the request copied from the host's environment is one the host has
CopiedFrom(env, host) == \A k \in DOMAIN env : env[k] = "host" => k \in DOMAIN host

\* an execute call, from the request to the child's command and environment;
\* one call is followed at a time
ExecuteSetup(request, case, prep, host) ==
    /\ setup = NoSetup
    /\ CopiedFrom(request.env, host)
    /\ setup' = execute_setup(request, case, prep, host)
    /\ UNCHANGED <<processes, nextId, tasks, execs, joins, joinsMade, lastJoin,
                   cancels, returned, fired, lastExecute, lastStatus, runtime,
                   lock, actors, clock, terminalAt>>

\* ------------------------------------------------- handler runtime, steps
\* a HandlerRuntime method up to its await: a oneshot channel is made and the
\* request is sent on the worker's channel
RuntimeSend(kind) ==
    /\ Len(runtime.sent) < MaxRequests
    /\ runtime' = [runtime EXCEPT
                      !.sent = Append(@, [kind |-> kind, waiting |-> TRUE]),
                      !.queue = Append(@, Len(runtime.sent) + 1),
                      !.replies = Append(@, <<>>)]
    /\ UNCHANGED <<processes, nextId, tasks, execs, joins, joinsMade, lastJoin,
                   cancels, returned, fired, lastExecute, lastStatus, setup,
                   lock, actors, clock, terminalAt>>

\* the caller's future is dropped while it awaits the reply: the receiving
\* half of the oneshot channel is gone
RuntimeCallerGone(n) ==
    /\ n \in DOMAIN runtime.sent
    /\ runtime.sent[n].waiting
    /\ runtime.replies[n] = <<>>
    /\ runtime' = [runtime EXCEPT !.sent[n].waiting = FALSE]
    /\ UNCHANGED <<processes, nextId, tasks, execs, joins, joinsMade, lastJoin,
                   cancels, returned, fired, lastExecute, lastStatus, setup,
                   lock, actors, clock, terminalAt>>

\* the worker's loop: rx.recv().await yields the next request
RuntimeRecv ==
    /\ runtime.evaluating = {}
    /\ runtime.queue # <<>>
    /\ LET r == recv(runtime.queue) IN
        runtime' = [runtime EXCEPT !.queue = r.rest,
                                   !.evaluating = {r.req},
                                   !.order = Append(@, r.req)]
    /\ UNCHANGED <<processes, nextId, tasks, execs, joins, joinsMade, lastJoin,
                   cancels, returned, fired, lastExecute, lastStatus, setup,
                   lock, actors, clock, terminalAt>>

\* the worker's loop: the request is evaluated and the result is sent on the
\* request's own oneshot channel (let _ = response.send(result): a result for
\* a caller that is gone is discarded)
RuntimeReply(n) ==
    /\ n \in runtime.evaluating
    /\ LET kind == runtime.sent[n].kind IN
        runtime' = [runtime EXCEPT
                       !.inner = evaluate_state(kind, @),
                       !.replies[n] = IF runtime.sent[n].waiting
                                      THEN Append(@, evaluate(kind, runtime.inner))
                                      ELSE @,
                       !.evaluating = @ \ {n}]
    /\ UNCHANGED <<processes, nextId, tasks, execs, joins, joinsMade, lastJoin,
                   cancels, returned, fired, lastExecute, lastStatus, setup,
                   lock, actors, clock, terminalAt>>

\* ---------------------------------------------------------- cleanup worker
\* interval.tick() completes, CleanupIntervalSecs after the tick before: the
\* worker takes the write lock and removes what to_remove selects
CleanupTick ==
    /\ clock < MaxTicks * CleanupIntervalSecs
    /\ clock' = clock + CleanupIntervalSecs
    /\ processes' = cleanup(processes, clock')
    /\ UNCHANGED <<nextId, tasks, execs, joins, joinsMade, lastJoin, cancels,
                   returned, fired, lastExecute, lastStatus, runtime, setup,
                   lock, actors, terminalAt>>

\* the executor task (aborted, not yet dropped) calls the supervisor for a
\* record the cleanup worker has removed: processes.get_mut(id).unwrap() panics
TaskRecordGone(id) ==
    /\ id \in DOMAIN tasks
    /\ id \notin DOMAIN processes
    /\ Live(tasks[id])
    /\ tasks' = [tasks EXCEPT ![id].pc = "panicked"]
    /\ UNCHANGED <<processes, nextId, execs, joins, joinsMade, lastJoin,
                   cancels, returned, fired, lastExecute, lastStatus, runtime,
                   setup, lock, actors, clock, terminalAt>>

Next ==
    \/ \E h \in HandlerKinds : Execute(h)
    \/ \E step \in HandlerSteps : ExecuteHandlerError(step)
    \/ \E id \in ProcIds : RegisterHandle(id)
    \/ \E id \in ProcIds : TaskStdoutLine(id)
    \/ \E id \in ProcIds : TaskStderrLine(id)
    \/ \E id \in ProcIds : TaskUpdateDropped(id)
    \/ \E id \in ProcIds : TaskStdoutEOF(id)
    \/ \E id \in ProcIds : TaskFinalSummary(id)
    \/ \E id \in ProcIds : TaskFinalDropped(id)
    \/ \E id \in ProcIds : TaskComplete(id)
    \/ \E id \in ProcIds : TaskFail(id)
    \/ \E id \in ProcIds : TaskDrop(id)
    \/ \E id \in ProcIds : CancelProcess(id)
    \/ \E id \in ProcIds : JoinBegin(id)
    \/ \E j \in 1..MaxJoins : JoinWake(j)
    \/ \E j \in 1..MaxJoins : JoinReturn(j)
    \/ \E id \in ProcIds : ExecJoinWake(id)
    \/ \E id \in ProcIds : ExecJoinReturn(id)

\* no cleanup tick is due while the jobs of Spec are followed
Spec == Init /\ [][Next]_vars

\* the life of a job over the first MaxTicks ticks of the cleanup worker
NextCleanup ==
    \/ \E h \in HandlerKinds : Execute(h)
    \/ \E id \in ProcIds : RegisterHandle(id)
    \/ \E id \in ProcIds : TaskStdoutLine(id)
    \/ \E id \in ProcIds : TaskStdoutEOF(id)
    \/ \E id \in ProcIds : TaskFinalSummary(id)
    \/ \E id \in ProcIds : TaskComplete(id)
    \/ \E id \in ProcIds : TaskFail(id)
    \/ \E id \in ProcIds : TaskDrop(id)
    \/ \E id \in ProcIds : TaskRecordGone(id)
    \/ \E id \in ProcIds : CancelProcess(id)
    \/ CleanupTick

SpecCleanup == Init /\ [][NextCleanup]_vars

\* an execute call made when the jobs started before it have ended
ExecuteNext == (\A id \in DOMAIN tasks : ~Live(tasks[id])) /\ ExecuteJob("none", MaxJobs)

\* jobs without a handler run one after the other, over the ticks of the
\* cleanup worker
NextJobs ==
    \/ ExecuteNext
    \/ \E id \in JobIds : RegisterHandle(id)
    \/ \E id \in JobIds : TaskStdoutLine(id)
    \/ \E id \in JobIds : TaskStdoutEOF(id)
    \/ \E id \in JobIds : TaskComplete(id)
    \/ CleanupTick

SpecJobs == Init /\ [][NextJobs]_vars

\* one job, with the lock of the map followed through every operation on it
NextLock ==
    \/ \E id \in ProcIds, h \in HandlerKinds : LockSpawn(id, h)
    \/ \E id \in ProcIds : LockRegisterHandle(id)
    \/ \E id \in ProcIds : LockUpdateBegin(id)
    \/ \E id \in ProcIds : LockUpdateEnd(id)
    \/ \E id \in ProcIds : LockComplete(id)
    \/ LockTaskDrop
    \/ \E id \in ProcIds : LockWaitFor(id)
    \/ LockWaitForDrop
    \/ \E id \in ProcIds : LockJoinWake(id)
    \/ \E id \in ProcIds : LockJoinReturn(id)
    \/ \E id \in ProcIds : LockCancel(id)
    \/ \E id \in ProcIds : LockStatus(id)

SpecLock == Init /\ [][NextLock]_vars

\* the handlers of HandlerKinds and one that summarizes every delta and
\* returns no summary at the end
FinalHandlerKinds == HandlerKinds \cup {"incremental"}

\* a job with any of these handlers, up to its completion, and execute's join
NextFinal ==
    \/ \E h \in FinalHandlerKinds : Execute(h)
    \/ \E id \in ProcIds : RegisterHandle(id)
    \/ \E id \in ProcIds : TaskStdoutLine(id)
    \/ \E id \in ProcIds : TaskStderrLine(id)
    \/ \E id \in ProcIds : TaskStdoutEOF(id)
    \/ \E id \in ProcIds : TaskFinalSummary(id)
    \/ \E id \in ProcIds : TaskComplete(id)
    \/ \E id \in ProcIds : ExecJoinWake(id)
    \/ \E id \in ProcIds : ExecJoinReturn(id)

SpecFinal == Init /\ [][NextFinal]_vars

\* the jobs nobody cancels and whose child closes its streams and exits: no
\* cancel_process call and no Err from the pipes or from child.wait()
NextLive ==
    \/ \E h \in HandlerKinds : Execute(h)
    \/ \E id \in ProcIds : RegisterHandle(id)
    \/ \E id \in ProcIds : TaskStdoutLine(id)
    \/ \E id \in ProcIds : TaskStderrLine(id)
    \/ \E id \in ProcIds : TaskStdoutEOF(id)
    \/ \E id \in ProcIds : TaskFinalSummary(id)
    \/ \E id \in ProcIds : TaskComplete(id)
    \/ \E id \in ProcIds : JoinBegin(id)
    \/ \E j \in 1..MaxJoins : JoinWake(j)
    \/ \E j \in 1..MaxJoins : JoinReturn(j)
    \/ \E id \in ProcIds : ExecJoinWake(id)
    \/ \E id \in ProcIds : ExecJoinReturn(id)

\* the runtime polls a spawned task that can go on, and the child ends its
\* output: every step of the executor task that stays possible is taken
TaskProgress(id) ==
    /\ WF_vars(RegisterHandle(id))
    /\ WF_vars(TaskStdoutEOF(id))
    /\ WF_vars(TaskFinalSummary(id))
    /\ WF_vars(TaskComplete(id))
    /\ WF_vars(ExecJoinWake(id))
    /\ WF_vars(ExecJoinReturn(id))

SpecLive == Init /\ [][NextLive]_vars /\ \A id \in ProcIds : TaskProgress(id)

\* an execute call with any request, handler situation and host environment
NextSetup ==
    \E request \in Requests, case \in HandlerCases, prep \in Preps,
       host \in HostEnvs :
        ExecuteSetup(request, case, prep, host)

SpecSetup == Init /\ [][NextSetup]_vars

\* one HandlerRuntime, its callers and its worker
NextRuntime ==
    \/ \E kind \in RequestKinds : RuntimeSend(kind)
    \/ \E n \in 1..MaxRequests : RuntimeCallerGone(n)
    \/ RuntimeRecv
    \/ \E n \in 1..MaxRequests : RuntimeReply(n)

SpecRuntime == Init /\ [][NextRuntime]_vars

\* the life of a job with status queries made at any moment of it
NextStatus ==
    \/ \E h \in HandlerKinds : Execute(h)
    \/ \E id \in ProcIds : RegisterHandle(id)
    \/ \E id \in ProcIds : TaskStdoutLine(id)
    \/ \E id \in ProcIds : TaskStderrLine(id)
    \/ \E id \in ProcIds : TaskStdoutEOF(id)
    \/ \E id \in ProcIds : TaskFinalSummary(id)
    \/ \E id \in ProcIds : TaskComplete(id)
    \/ \E id \in ProcIds : TaskFail(id)
    \/ \E id \in ProcIds : TaskDrop(id)
    \/ \E id \in ProcIds : CancelProcess(id)
    \/ \E id \in ProcIds : GetProcessStatus(id)
    \/ \E id \in ProcIds : ProcessStatus(id)

SpecStatus == Init /\ [][NextStatus]_vars

\* ------------------------------------------------------------------ claims
Known == DOMAIN processes

\* C1: once a record's state is terminal it never changes again.  The case
\* stated here is the claim's first particular one: a cancel_process that arrives
\* after complete_process leaves the state Completed.
C1_CompletedNeverChanges ==
    [][\A id \in Known :
          processes[id].state.tag = "Completed"
              => processes'[id].state = processes[id].state]_vars

\* C1, second particular case: a complete_process that runs after a successful
\* cancel_process leaves the state Cancelled.
C1_CancelledNeverCompleted ==
    [][\A id \in Known :
          processes[id].state.tag = "Cancelled"
              => processes'[id].state.tag # "Completed"]_vars

\* C2: the completion signal is set at most once, only when the state is
\* terminal, and once set it stays set.
C2_SignalState ==
    \A id \in Known :
        /\ fired[id] <= 1
        /\ processes[id].complete <=> fired[id] = 1
        /\ processes[id].complete => Terminal(processes[id].state)

C2_SignalLatches ==
    \A id \in Known : processes[id].complete => processes'[id].complete

C2_CompletionSignal == [](C2_SignalState) /\ [][C2_SignalLatches]_vars

\* a job whose signal is set and that was cancelled afterwards
C2_Witness ==
    \E id \in Known :
        /\ processes[id].complete
        /\ fired[id] = 1
        /\ processes[id].state.tag = "Cancelled"

\* C3: a cancel_process that returned true has fired the completion signal, so
\* a join waiting on the job returns without waiting for its timeout.
C3_CancelFiresSignal ==
    \A id \in Known : cancels.ok[id] > 0 => processes[id].complete

\* C4: of two cancel_process calls on the same id at most the first returns
\* true.
C4_SecondCancelFalse ==
    \A id \in Known : cancels.ok[id] <= 1

\* C5: drain property.  The summary a join returns holds no material that an
\* earlier join, one that had returned before this one started, returned.
C5_DrainProperty ==
    lastJoin.known =>
        Material(lastJoin.update.incremental_summary) \cap lastJoin.seenBefore = {}

\* the lines update_process_output has appended to the accumulators of id
AppliedLines(id) ==
    Chunks(processes[id].raw_stdout) \cup Chunks(processes[id].raw_stderr)

\* the chunks a join has returned or the next join will find pending
ReturnedOrPending(id) ==
    returned[id].chunks \cup Chunks(processes[id].delta_summary)

\* C6 as stated, on the jobs that have no handler: every delta applied is
\* returned by some join or still pending for the next one.
C6_NoDeltaLost ==
    \A id \in Known :
        tasks[id].h = "none" => AppliedLines(id) \subseteq ReturnedOrPending(id)

\* C6 amended: on a job without a handler every delta applied is returned by a
\* join or pending for the next one, as long as no join found more than
\* JoinSummaryChars characters pending; what a join cuts off is what is missing.
C6_NoDeltaLostWithinLimit ==
    \A id \in Known :
        tasks[id].h = "none" =>
            /\ returned[id].cut = 0 => AppliedLines(id) \subseteq ReturnedOrPending(id)
            /\ Chars(processes[id].raw_stdout) + Chars(processes[id].raw_stderr)
                 = returned[id].cut + Chars(processes[id].delta_summary)
                   + Chars(SetToSeq(returned[id].chunks))

\* two joins have returned one delta each, and nothing was cut off
C6_Witness ==
    \E id \in Known :
        /\ tasks[id].h = "none"
        /\ returned[id].cut = 0
        /\ Cardinality(returned[id].chunks) = 2
        /\ processes[id].delta_summary = <<>>
        /\ lastJoin.caller = "tool"
        /\ Len(lastJoin.update.incremental_summary) = 1

\* C7: join_process on an id that is not in the map returns None.
C7_UnknownIdReturnsNone ==
    (lastJoin.caller # "none" /\ ~lastJoin.known)
        => lastJoin.update.status.tag = "None"

\* a join_process call returns in this step
JoinReturns ==
    \/ Len(joins') < Len(joins)
    \/ \E id \in DOMAIN execs : execs[id].pc = "woken" /\ execs'[id].pc = "returned"

\* C8: a join whose timeout elapsed and that finds the job Running returns
\* status Running and leaves the state, the accumulators and the executor task
\* as they are.
C8_TimeoutLeavesJobRunning ==
    [][(/\ JoinReturns
        /\ lastJoin'.by = "timeout"
        /\ processes[lastJoin'.id].state = Running)
       => LET id == lastJoin'.id IN
            /\ lastJoin'.update.status = Running
            /\ processes'[id].state = Running
            /\ processes'[id].raw_stdout = processes[id].raw_stdout
            /\ processes'[id].raw_stderr = processes[id].raw_stderr
            /\ processes'[id].complete = processes[id].complete
            /\ tasks' = tasks]_vars

\* execute's join and a later join both timed out on a Running job, and the
\* executor has applied a delta after the second
C8_Witness ==
    /\ lastJoin.caller = "tool"
    /\ lastJoin.by = "timeout"
    /\ lastJoin.update.status = Running
    /\ \E id \in Known :
        /\ lastJoin.id = id
        /\ execs[id].result.kind = "ok"
        /\ execs[id].result.is_running
        /\ processes[id].state = Running
        /\ processes[id].delta_summary # <<>>
        /\ tasks[id].pc = "read"

\* C9: the result execute builds when its join returned Running.
C9_RunningResult ==
    (lastJoin.caller = "execute" /\ lastJoin.update.status = Running)
        => LET r == execs[lastJoin.id].result IN
            /\ r.kind = "ok"
            /\ r.is_running = TRUE
            /\ r.process_id = lastJoin.id
            /\ r.available_actions = <<"Join", "Cancel", "Status">>
            /\ r.exit_code = -1
            /\ r.truncation_reason = "timeout"
            /\ r.summary = RunningPrefix \o lastJoin.update.incremental_summary

C9_Witness ==
    /\ lastJoin.caller = "execute"
    /\ lastJoin.update.status = Running
    /\ Len(lastJoin.update.incremental_summary) = 2
    /\ execs[lastJoin.id].result.kind = "ok"

\* C10: in every result execute returns, available_actions is non-empty iff
\* is_running; a result built from a Completed join has none.
C10_ActionsIffRunning ==
    \A id \in DOMAIN execs :
        LET r == execs[id].result IN
            /\ r.kind = "ok" => (r.available_actions # <<>> <=> r.is_running)
            /\ (lastJoin.caller = "execute" /\ lastJoin.id = id
                  /\ lastJoin.update.status.tag = "Completed")
                 => (r.kind = "ok" /\ r.available_actions = <<>> /\ ~r.is_running)

C10_Witness ==
    \E id \in DOMAIN execs :
        /\ execs[id].result.kind = "ok"
        /\ ~execs[id].result.is_running
        /\ lastJoin.caller = "execute"
        /\ lastJoin.update.status.tag = "Completed"

\* C11: the result execute returns carries the child's exit code when its
\* initial join observed Completed and -1 when it observed Running, Cancelled or
\* Failed; a result is returned for each of the four states.
C11_ExitCodeByState ==
    lastJoin.caller = "execute" =>
        LET r == execs[lastJoin.id].result
            st == lastJoin.update.status
        IN  /\ r.kind = "ok"
            /\ st.tag = "Completed" => r.exit_code = tasks[lastJoin.id].exit_code
            /\ st.tag \in {"Running", "Cancelled", "Failed"} => r.exit_code = -1

\* the executor task of id ended in an error of execute_streaming_inner
TaskFailed(id) == tasks[id].pc = "failed"

C12_FailedState ==
    \A id \in Known :
        TaskFailed(id) =>
            /\ processes[id].complete
            /\ processes[id].state # Running
            /\ cancels.ok[id] = 0 => processes[id].state = Failed

C12_FailStep ==
    \A id \in Known :
        (~TaskFailed(id) /\ TaskFailed(id)') =>
            /\ processes'[id].state = Failed
            /\ processes'[id].complete
            /\ cancels.ok[id] = 0 => processes[id].state = Running

C14_FileState ==
    \A id \in Known :
        /\ processes[id].state.tag = "Completed" =>
               /\ processes[id].file.written
               /\ processes[id].file.exit_code = processes[id].state.exit_code
        /\ processes[id].file.written =>
               /\ processes[id].file.stdout = processes[id].raw_stdout
               /\ processes[id].file.stderr = processes[id].raw_stderr
               /\ processes[id].file.exit_code = tasks[id].exit_code

C14_FileStep ==
    \A id \in Known :
        /\ processes[id].file.written => processes'[id].file = processes[id].file
        /\ (~processes[id].file.written /\ processes'[id].file.written) =>
               /\ processes'[id].state = Completed(processes'[id].file.exit_code)
               /\ processes'[id].file.stdout = processes[id].raw_stdout
               /\ processes'[id].file.stderr = processes[id].raw_stderr

\* C14: the output file holds the exit-code header, the stdout accumulator in
\* the stdout section and the stderr accumulator in the stderr section, with
\* the values the accumulators have in the step that makes the job Completed;
\* every delta applied to the record is in the file, and the file is never
\* written again.
C14_OutputFile == [](C14_FileState) /\ [][C14_FileStep]_vars

\* a completed job whose file holds a stdout line and a stderr line
C14_Witness ==
    \E id \in Known :
        /\ processes[id].state.tag = "Completed"
        /\ processes[id].file.written
        /\ Len(processes[id].file.stdout) = 1
        /\ Len(processes[id].file.stderr) = 1

\* the executor task of id has ended, in whatever way
TaskEnded(id) == tasks[id].pc \in {"done", "failed", "dropped", "panicked"}

\* C15: when a job with a handler has ended, by completion, failure or
\* cancellation, its handler has received exactly one summarize call with an
\* exit code, and that call was the last one.
C15_OneFinalCall ==
    \A id \in Known :
        (tasks[id].h # "none" /\ TaskEnded(id)) =>
            /\ tasks[id].calls.finals = 1
            /\ tasks[id].calls.lastFinal

\* the executor task of id panicked; while every record is in the map the one
\* panic there is, is the unwrap of a summarize call that returned Err
HandlerFailed(id) == tasks[id].pc = "panicked"

\* C16: after a summarize call failed the executor goes on without the handler
\* and the job ends Completed with its signal fired.
C16_HandlerErrorDegrades ==
    \A id \in Known :
        HandlerFailed(id) =>
            \/ Live(tasks[id])
            \/ processes[id].state.tag = "Completed" /\ processes[id].complete

\* C17: a handler set-up step that fails does not fail the execute call: the
\* command is run without a handler.
C17_HandlerErrorFallsThrough ==
    lastExecute.handler_error # "none" => lastExecute.outcome = "spawned"

\* C18: when complete_process has run, every stderr line the child wrote,
\* those still unread at stdout's EOF included, is in the stderr accumulator and
\* in the output file.
C18_StderrDrained ==
    \A id \in Known :
        tasks[id].pc = "done" =>
            /\ Len(processes[id].raw_stderr) = tasks[id].errN + tasks[id].errUnread
            /\ Len(processes[id].file.stderr) = tasks[id].errN + tasks[id].errUnread

\* the lines of stream s in text t, in the order they stand in t
RECURSIVE StreamOf(_, _)
StreamOf(t, s) ==
    IF t = <<>> THEN <<>>
    ELSE IF Head(t).s = s THEN <<Head(t).k>> \o StreamOf(Tail(t), s)
    ELSE StreamOf(Tail(t), s)

\* the line numbers ks go up one by one
Consecutive(ks) == \A i \in 1..(Len(ks) - 1) : ks[i + 1] = ks[i] + 1

\* the line numbers ks are those of the first lines the child wrote
FromFirst(ks) == \A i \in DOMAIN ks : ks[i] = i

\* C19: for each stream the lines stand in the accumulator in the order the
\* child wrote them, none left out, and the text summarize was given (the
\* pending delta summary of a job without a handler or with the echoing one)
\* has them in that order too, whatever the interleaving of the two streams.
C19_StreamOrder ==
    \A id \in Known :
        /\ FromFirst(StreamOf(processes[id].raw_stdout, "o"))
        /\ FromFirst(StreamOf(processes[id].raw_stderr, "e"))
        /\ StreamOf(processes[id].raw_stdout, "e") = <<>>
        /\ StreamOf(processes[id].raw_stderr, "o") = <<>>
        /\ Consecutive(StreamOf(processes[id].delta_summary, "o"))
        /\ Consecutive(StreamOf(processes[id].delta_summary, "e"))

\* the echoing handler was given two stdout lines, both pending for the next
\* join
C19_Witness ==
    \E id \in Known :
        /\ tasks[id].h = "echo"
        /\ Len(processes[id].raw_stdout) = 2
        /\ StreamOf(processes[id].delta_summary, "o") = <<1, 2>>

\* C20: a record leaves the map only in a step of the cleanup worker, and only
\* when MaxAgeSecs or more have passed since its state became terminal.
C20_RemovedAfterHour ==
    [][\A id \in DOMAIN processes :
          id \notin DOMAIN processes' =>
              /\ clock' # clock
              /\ terminalAt[id] >= 0
              /\ clock' - terminalAt[id] >= MaxAgeSecs]_vars

\* text a is the beginning of text b
IsPrefix(a, b) == Len(a) <= Len(b) /\ a = SubSeq(b, 1, Len(a))

\* the step is one of the executor's read loop on the job id
ReadLoopStep(id) ==
    /\ tasks[id].pc = "read"
    /\ tasks'[id] # tasks[id]
    /\ joins' = joins /\ lastJoin' = lastJoin /\ execs' = execs
    /\ cancels' = cancels /\ fired' = fired

\* C29: in every step the stdout and the stderr accumulator of every record
\* stay a beginning of what they are after it, and only an update made by the
\* executor's read loop changes them: no join_process, cancel_process or
\* complete_process step does.
C29_AccumulatorsGrow ==
    [][\A id \in DOMAIN processes \cap DOMAIN processes' :
          /\ IsPrefix(processes[id].raw_stdout, processes'[id].raw_stdout)
          /\ IsPrefix(processes[id].raw_stderr, processes'[id].raw_stderr)
          /\ (\/ processes'[id].raw_stdout # processes[id].raw_stdout
              \/ processes'[id].raw_stderr # processes[id].raw_stderr)
                 => ReadLoopStep(id)]_vars

\* a cancelled job whose two lines were returned by a join and are still in
\* the accumulators
C29_Witness ==
    \E id \in Known :
        /\ processes[id].state = Cancelled
        /\ Len(processes[id].raw_stdout) + Len(processes[id].raw_stderr) = 2
        /\ processes[id].delta_summary = <<>>
        /\ Cardinality(returned[id].chunks) = 2

\* the step is a status query on the id the last one was made on
StatusAgain == lastStatus' # lastStatus /\ lastStatus'.id = lastStatus.id

\* C21: a get_process_status call changes nothing in the map, and two calls
\* made on a job after its terminal transition return the same.
C21_StatusStable ==
    [][(/\ StatusAgain
        /\ lastStatus.terminal
        /\ lastStatus.reply.kind = "info"
        /\ lastStatus'.reply.kind = "info")
       => /\ lastStatus'.reply = lastStatus.reply
          /\ processes' = processes]_vars

ExecuteReturnsCompleted(id) ==
    /\ id \in DOMAIN execs
    /\ execs[id].pc = "woken"
    /\ execs'[id].pc = "returned"
    /\ execs'[id].result.kind = "ok"
    /\ ~execs'[id].result.is_running

\* C23: with no truncation reported by the handler, a final summary of more
\* than 10,000 characters is returned cut to 10,000 characters and a note, with
\* truncated = true and the reason "content_too_large"; one of at most 10,000
\* characters is returned whole with truncated = false.
C23_CutAtTenThousand ==
    [][\A id \in ProcIds :
          ExecuteReturnsCompleted(id)
          => LET pending == processes[id].delta_summary
                 result == execs'[id].result
             IN  IF Chars(pending) > 10000
                 THEN /\ result.truncated
                      /\ result.truncation_reason = "content_too_large"
                      /\ Chars(result.summary) > 10000
                 ELSE /\ ~result.truncated
                      /\ result.summary = pending]_vars

\* C24: a job that is not cancelled and whose child closes its streams and
\* exits eventually is Completed with its signal fired, and its output file
\* then has every line the child wrote.
C24_EventuallyCompleted ==
    \A id \in ProcIds :
        (id \in DOMAIN tasks)
        ~> (/\ id \in DOMAIN processes
            /\ processes[id].state.tag = "Completed"
            /\ processes[id].complete
            /\ processes[id].file.written
            /\ Len(processes[id].file.stdout) = tasks[id].outN
            /\ Len(processes[id].file.stderr) = tasks[id].errN + tasks[id].errUnread)

\* the JS runtime after the first n requests sent were evaluated in that order
RECURSIVE InnerAfter(_)
InnerAfter(n) ==
    IF n = 0 THEN NewInner
    ELSE evaluate_state(runtime.sent[n].kind, InnerAfter(n - 1))

\* the worker has taken request n and is through with it
Evaluated(n) ==
    /\ \E i \in DOMAIN runtime.order : runtime.order[i] = n
    /\ n \notin runtime.evaluating

C26_ExactPassesThrough ==
    (setup.outcome # "none" /\ setup.request.exact) =>
        /\ setup.outcome = "config"
        /\ ~setup.lookup
        /\ setup.calls = <<>>
        /\ setup.config.cmd = setup.request.cmd
        /\ setup.config.args = setup.request.args
        /\ setup.config.env = setup.request.env
        /\ \A k \in DOMAIN setup.request.env :
               setup.child_env[k] = setup.request.env[k]
        /\ process(Line("o", 1), Line("e", 1), setup.config.handler)
               = Line("o", 1) \o Line("e", 1)

\* an exact request for a command that has a matching handler, one that would
\* change the command, set a variable the request sets too and hold the output
C26_Witness ==
    /\ setup.outcome = "config"
    /\ setup.request.exact
    /\ setup.case = "match"
    /\ setup.prep.handler = "buffer"
    /\ setup.prep.cmd # setup.request.cmd
    /\ DOMAIN setup.prep.env = EnvKeys
    /\ DOMAIN setup.request.env = {"CARGO_TERM_COLOR"}
    /\ setup.config.env = setup.request.env

\* the handler's env of the call: prepare's when the handler matched
HandlerEnv ==
    IF ~setup.request.exact /\ setup.case = "match" THEN setup.prep.env ELSE NoEnv

\* C27: the child gets the request's env overlaid by the handler's: the
\* handler's value on a key of both, the only value there is on a key of one,
\* and the request's env as it is when there is no handler.
C27_HandlerEnvWins ==
    setup.outcome = "config" =>
        /\ DOMAIN setup.config.env = DOMAIN setup.request.env \cup DOMAIN HandlerEnv
        /\ \A k \in DOMAIN setup.config.env :
            /\ k \in DOMAIN HandlerEnv => setup.config.env[k] = HandlerEnv[k]
            /\ k \notin DOMAIN HandlerEnv => setup.config.env[k] = setup.request.env[k]
            /\ setup.child_env[k] = setup.config.env[k]
        /\ setup.config.handler = "none" => setup.config.env = setup.request.env

\* a key set by both, one set by the request only
C27_Witness ==
    /\ setup.outcome = "config"
    /\ setup.config.handler # "none"
    /\ DOMAIN setup.request.env = EnvKeys
    /\ DOMAIN setup.prep.env = {"CARGO_TERM_COLOR"}
    /\ setup.config.env["CARGO_TERM_COLOR"] = "handler"
    /\ setup.config.env["RUST_LOG"] = "request"

\* C28: the child never gets the RUST_LOG of the host process, whatever the
\* request's env and the handler's env are, a request's env copied from the
\* host's environment included.
C28_NoHostLogging ==
    (setup.outcome = "config" /\ "RUST_LOG" \in DOMAIN setup.child_env)
        => setup.child_env["RUST_LOG"] # "host"

\* the ids of the records the cleanup worker has removed
Evicted == DOMAIN tasks \ DOMAIN processes

\* C30: start_process returns an id it has not returned before, the ids of
\* removed records included, and inserts for it a record that is Running, with
\* empty accumulators, an empty delta summary, no handle and an unset signal;
\* every other record stays as it is.
C30_FreshRecord ==
    [][nextId' # nextId
       => LET id == nextId' IN
            /\ id \notin DOMAIN tasks
            /\ id \notin DOMAIN processes
            /\ DOMAIN processes' = DOMAIN processes \cup {id}
            /\ processes'[id].state = Running
            /\ processes'[id].raw_stdout = <<>>
            /\ processes'[id].raw_stderr = <<>>
            /\ processes'[id].delta_summary = <<>>
            /\ ~processes'[id].executor_handle
            /\ ~processes'[id].complete
            /\ \A i \in DOMAIN processes : processes'[i] = processes[i]]_vars

\* a second job just started beside a completed one that holds output
C30_Witness ==
    /\ DOMAIN processes = {1, 2}
    /\ processes[1].state.tag = "Completed"
    /\ Len(processes[1].raw_stdout) = MaxLines
    /\ processes[2].state = Running
    /\ ~processes[2].executor_handle
    /\ processes[2].started_at > processes[1].started_at

\* a job started after the record of an earlier one was removed
C30_WitnessEvicted ==
    /\ Evicted = {1}
    /\ DOMAIN processes = {2}
    /\ ~processes[2].executor_handle

\* C31: once cancel_process has returned true for a job, no step appends to
\* its accumulators or to its delta summary, replaces the delta summary or
\* writes its output file; the delta summary changes by a join's drain only.
C31_CancelDropsResults ==
    [][\A id \in DOMAIN processes \cap DOMAIN processes' :
          cancels.ok[id] > 0 =>
              /\ processes'[id].raw_stdout = processes[id].raw_stdout
              /\ processes'[id].raw_stderr = processes[id].raw_stderr
              /\ processes'[id].file = processes[id].file
              /\ processes'[id].delta_summary # processes[id].delta_summary
                     => JoinReturns /\ processes'[id].delta_summary = <<>>]_vars

\* an update_process_output call of the task of id returns in this step
UpdateReturns(id) ==
    /\ id \in DOMAIN tasks
    /\ tasks[id].pc = "read"
    /\ tasks'[id].pc = "read"
    /\ tasks'[id].outN + tasks'[id].errN > tasks[id].outN + tasks[id].errN

\* the deltas that call was given
StdoutDelta(id) ==
    IF tasks'[id].outN > tasks[id].outN THEN Line("o", tasks'[id].outN) ELSE <<>>
StderrDelta(id) ==
    IF tasks'[id].errN > tasks[id].errN THEN Line("e", tasks'[id].errN) ELSE <<>>

\* C32: update_process_output appends the stdout delta to the stdout
\* accumulator and the stderr delta to the stderr accumulator; with a handler
\* it makes one summarize call with no exit code and appends the summary
\* returned, nothing when that is null; with no handler it appends the stdout
\* delta followed by the stderr delta.
C32_UpdateAppends ==
    [][\A id \in ProcIds :
          UpdateReturns(id) =>
            LET h == tasks[id].h
                out == StdoutDelta(id)
                err == StderrDelta(id)
            IN  /\ processes'[id].raw_stdout = processes[id].raw_stdout \o out
                /\ processes'[id].raw_stderr = processes[id].raw_stderr \o err
                /\ h = "none" =>
                      /\ processes'[id].delta_summary =
                             processes[id].delta_summary \o out \o err
                      /\ tasks'[id].calls = tasks[id].calls
                /\ h # "none" =>
                      /\ processes'[id].delta_summary =
                             processes[id].delta_summary
                               \o (IF summarize(h, out, err, None) = NoSummary
                                   THEN <<>> ELSE summarize(h, out, err, None))
                      /\ tasks'[id].calls.deltas = tasks[id].calls.deltas + 1
                      /\ tasks'[id].calls.finals = tasks[id].calls.finals]_vars

\* a buffering handler was given a line of each stream: both are in the
\* accumulators and nothing is pending
C32_Witness ==
    \E id \in Known :
        /\ tasks[id].h = "buffer"
        /\ tasks[id].pc = "read"
        /\ ~tasks[id].aborted
        /\ tasks[id].calls.deltas = 2
        /\ Len(processes[id].raw_stdout) = 1
        /\ Len(processes[id].raw_stderr) = 1
        /\ processes[id].delta_summary = <<>>
        /\ returned[id].chunks = {}

\* a final_process_summary call of the task of id returns in this step
FinalReturns(id) ==
    /\ id \in DOMAIN tasks
    /\ tasks[id].pc = "final"
    /\ tasks'[id].pc = "complete"

C33_WitnessNull ==
    \E id \in Known :
        /\ tasks[id].h = "incremental"
        /\ tasks[id].pc = "complete"
        /\ tasks[id].calls.finals = 1
        /\ Len(processes[id].delta_summary) = 2

\* text a is the end of text b, its first chunk possibly the rest of a chunk
\* that was cut
IsTail(a, b) ==
    /\ Len(a) <= Len(b)
    /\ LET d == Len(b) - Len(a) IN
         \A i \in DOMAIN a :
            /\ a[i].s = b[d + i].s
            /\ a[i].k = b[d + i].k
            /\ i > 1 => a[i] = b[d + i]

\* C34: a join on an id that is in the map returns, whether the signal or the
\* timeout ended its wait, the last JoinSummaryChars characters of the delta
\* summary (all of it when it has no more) and the state of the record, and
\* leaves the delta summary empty, that of a job that has ended too.
C34_JoinDrains ==
    [][(JoinReturns /\ lastJoin'.known)
       => LET id == lastJoin'.id
              pending == processes[id].delta_summary
              update == lastJoin'.update
          IN  /\ lastJoin'.by \in {"signal", "timeout"}
              /\ Chars(pending) <= JoinSummaryChars =>
                     update.incremental_summary = pending
              /\ Chars(pending) > JoinSummaryChars =>
                     /\ Chars(update.incremental_summary) = JoinSummaryChars
                     /\ IsTail(update.incremental_summary, pending)
              /\ update.status = processes[id].state
              /\ processes'[id].state = processes[id].state
              /\ processes'[id].delta_summary = <<>>]_vars

\* a join woken by the signal found two lines pending on the completed job,
\* returned the last JoinSummaryChars characters of them and left none
C34_Witness ==
    /\ lastJoin.known
    /\ lastJoin.by = "signal"
    /\ lastJoin.update.status.tag = "Completed"
    /\ Len(lastJoin.update.incremental_summary) = 2
    /\ lastJoin.update.incremental_summary[1].cut
    /\ Chars(lastJoin.update.incremental_summary) = JoinSummaryChars
    /\ processes[lastJoin.id].delta_summary = <<>>

\* matches returned true in the call: the handler matched, or a step after
\* matches failed
MatchesReturnedTrue == setup.case \in {"match", "create_handler", "prepare"}

C39_CleanupSparesRunning ==
    [][clock' # clock
       => /\ DOMAIN processes' \subseteq DOMAIN processes
          /\ \A id \in DOMAIN processes :
               /\ processes[id].state = Running => id \in DOMAIN processes'
               /\ id \notin DOMAIN processes' =>
                     processes[id].state.tag \in {"Completed", "Cancelled", "Failed"}
               /\ id \in DOMAIN processes' => processes'[id] = processes[id]]_vars

\* a job with output that is still Running at the last tick followed, more
\* than MaxAgeSecs after its start
C39_Witness ==
    \E id \in DOMAIN processes :
        /\ processes[id].state = Running
        /\ processes[id].raw_stdout # <<>>
        /\ clock = MaxTicks * CleanupIntervalSecs
        /\ clock - processes[id].started_at > MaxAgeSecs

\* C40: a join on an id in the map whose wait was ended by the signal, before
\* its timeout, returns a terminal status; a join that returns Running is one
\* whose timeout elapsed with the signal unset.
C40_EarlyReturnIsTerminal ==
    lastJoin.known =>
        /\ lastJoin.by = "signal" =>
               lastJoin.update.status.tag \in {"Completed", "Cancelled", "Failed"}
        /\ lastJoin.update.status = Running => lastJoin.by = "timeout"

\* a join of the tool surface that the signal woke and that found the job
\* completed with the exit code of a child killed by a signal
C40_Witness ==
    /\ lastJoin.known
    /\ lastJoin.caller = "tool"
    /\ lastJoin.by = "signal"
    /\ lastJoin.update.status = Completed(-1)
    /\ fired[lastJoin.id] = 1


\* C36: while a join waits for the completion signal it holds neither the read
\* nor the write lock of the map; the only holder there can be is the executor
\* in the middle of an update, and whenever it is not, complete, update, cancel
\* and status can take the lock; the wait itself can always end.
C36_WaitHoldsNoLock ==
    actors.joiner = "waiting" =>
        /\ "joiner" \notin lock.readers
        /\ lock.writer # "joiner"
        /\ \A id \in ProcIds : ENABLED LockJoinWake(id)
        /\ actors.executor = "summarizing" =>
               \A id \in ProcIds : ENABLED LockUpdateEnd(id)
        /\ actors.executor = "idle" =>
               \A id \in ProcIds :
                   /\ ENABLED LockComplete(id)
                   /\ actors.lines < MaxLines => ENABLED LockUpdateBegin(id)
        /\ actors.executor # "summarizing" =>
               \A id \in ProcIds :
                   /\ ENABLED LockStatus(id)
                   /\ actors.cancel.n < MaxCancels => ENABLED LockCancel(id)

\* a join is waiting and the executor, which found the lock free after the
\* join's read guard was dropped, is in the middle of an update
C36_Witness ==
    /\ actors.joiner = "waiting"
    /\ actors.executor = "summarizing"
    /\ lock = [writer |-> "executor", readers |-> {}]

\* C37: a cancel_process call made before register_handle has stored the
\* handle, on an id not yet in the map or on the record start_process just
\* inserted, returns false, leaves the map as it was (a Running record stays
\* Running) and leaves the executor task as it was, not aborted.
C37_CancelWithoutHandle ==
    [][(actors'.cancel.n # actors.cancel.n /\ actors.spawner # "registered") =>
          /\ ~actors'.cancel.ret
          /\ processes' = processes
          /\ \A id \in DOMAIN processes :
                 processes[id].state = Running => processes'[id].state = Running
          /\ actors'.executor = actors.executor
          /\ actors'.aborted = actors.aborted]_vars

\* a cancel ran inside spawn's window, returned false, and the job is Running
\* with an executor that has delivered a line and goes on
C37_Witness ==
    /\ actors.cancel.n > 0
    /\ actors.cancel.at = "started"
    /\ ~actors.cancel.ret
    /\ actors.spawner = "started"
    /\ actors.executor = "idle"
    /\ actors.lines = 1
    /\ ~actors.aborted
    /\ \A id \in DOMAIN processes : processes[id].state = Running

\* C38: from the append to the accumulators until the append to delta_summary
\* the executor holds the write lock, and no step taken in between reads or
\* changes the map: no status reply, no join result, no cancel, no other
\* holder of the lock.
C38_UpdateHoldsWriteLock ==
    [][actors.executor = "summarizing" =>
          /\ lock = [writer |-> "executor", readers |-> {}]
          /\ actors'.executor = "summarizing" =>
                 /\ processes' = processes
                 /\ lock' = lock
                 /\ lastStatus' = lastStatus
                 /\ actors'.join = actors.join
                 /\ actors'.cancel = actors.cancel
                 /\ actors'.joiner # "cloned"]_vars

\* the accumulators hold the delta, the summary of a handler that gives one is
\* not appended yet, and a join whose wait is over is held off by the lock
C38_Witness ==
    /\ actors.executor = "summarizing"
    /\ actors.h = "echo"
    /\ actors.joiner = "woken"
    /\ lock.writer = "executor"
    /\ \A id \in DOMAIN processes :
           /\ processes[id].raw_stdout # <<>>
           /\ processes[id].delta_summary = <<>>

====
